---- MODULE Spec2Model ----
(***************************************************************************)
(* Heap-based minimum-degree ordering without lookahead (heap_md.py).      *)
(*                                                                         *)
(* A graph is its adjacency map: a function from the node set to the set   *)
(* of neighbours of each node (networkx Graph.adj).  Equation (row) ids    *)
(* are 0 .. n_rows-1 and variable (column) ids are shifted by n_rows, as   *)
(* coo_matrix_to_bipartite numbers them.                                   *)
(***************************************************************************)
EXTENDS Integers, Sequences, FiniteSets, TLC

MaxNodes == 5       \* largest number of nodes of an input graph
MaxForbidden == 1   \* largest number of forbidden pairs of an input
MaxWeight == 3      \* largest edge weight of a weighted input graph

VARIABLES
    g_orig,      \* the input graph, never modified
    weight,      \* the 'weight' attribute of every edge {eq, var} of g_orig
    n_rows,      \* the ids 0 .. n_rows-1 are the equation side of g_orig
    eqs,         \* the equation set passed by the caller
    forbidden,   \* set of (u, v) tuples
    pc,          \* position of the control flow
    caller,      \* the function that called min_degree
    err,         \* the assertion that failed, "" if none
    probe,       \* to_spiked_form's first `matches`: the matching of the probe
    g_allowed,   \* working copy: allowed edges only
    g,           \* working copy: all edges
    eq_tot,      \* the priority queue: equation id -> (cost, tot, id)
    rowp,        \* row permutation built by the loop
    matches,     \* eq -> var and var -> eq
    vrs_log,     \* vrs_log[i] = the variables eliminated in iteration i
    colp,        \* column permutation in Hessenberg order
    tear_set,
    sink_set,
    result,      \* the tuple returned to the caller of to_*_form
    dag          \* edges of the DiGraph built by matching_to_dag

vars == << g_orig, weight, n_rows, eqs, forbidden, pc, caller, err, probe,
           g_allowed, g, eq_tot, rowp, matches, vrs_log, colp, tear_set,
           sink_set, result, dag >>

----------------------------------------------------------------------------
(* Helpers for Python's built-ins *)

Range(s) == { s[i] : i \in 1..Len(s) }

Min(S) == CHOOSE x \in S : \A y \in S : x <= y

RECURSIVE sorted(_)
sorted(S) == IF S = {} THEN << >>
             ELSE LET m == Min(S) IN << m >> \o sorted(S \ {m})

\* [x for x in s if x in S]
RECURSIVE Filter(_, _)
Filter(s, S) == IF s = << >> THEN << >>
                ELSE (IF Head(s) \in S THEN << Head(s) >> ELSE << >>)
                     \o Filter(Tail(s), S)

EmptyMap == [n \in {} |-> 0]

----------------------------------------------------------------------------
(* networkx Graph operations used by the code *)

remove_node(gr, n) == [m \in (DOMAIN gr) \ {n} |-> gr[m] \ {n}]

remove_nodes_from(gr, ns) == [m \in (DOMAIN gr) \ ns |-> gr[m] \ ns]

\* the (eq, var) tuples of the edges of gr
Edges(gr, rows) == { e \in rows \X ((DOMAIN gr) \ rows) : e[2] \in gr[e[1]] }

----------------------------------------------------------------------------
(* setup_graphs: g_allowed is the copy of g_orig without the forbidden     *)
(* edges; both adjacency entries of each forbidden tuple are deleted.      *)

\* setup_graphs deleting adj[u][v] only
setup_graphs_one_way(gr, forb) ==
    [n \in DOMAIN gr |-> gr[n] \ { p[2] : p \in { q \in forb : q[1] = n } }]

setup_graphs(gr, forb) ==
    [n \in DOMAIN gr |->
        gr[n] \ ( { p[2] : p \in { q \in forb : q[1] = n } }
                  \cup { p[1] : p \in { q \in forb : q[2] = n } } )]

----------------------------------------------------------------------------
(* The priority keys *)

Key(ga, gf, e) ==
    LET tot  == Cardinality(gf[e])
        cost == IF ga[e] # {} THEN tot - 1 ELSE tot
    IN  << cost, tot, e >>

\* create_heap leaving out the equations without neighbour
create_heap_nonempty_rows(ga, gf, es) ==
    [e \in { x \in es : gf[x] # {} } |-> Key(ga, gf, e)]

create_heap(ga, gf, es) == [e \in es |-> Key(ga, gf, e)]

\* tuple comparison of Python
KeyLess(a, b) ==
    \/ a[1] < b[1]
    \/ a[1] = b[1] /\ a[2] < b[2]
    \/ a[1] = b[1] /\ a[2] = b[2] /\ a[3] < b[3]

\* PriorityQueue.popitem: the entry with the smallest priority
popitem(q) == CHOOSE e \in DOMAIN q : \A f \in (DOMAIN q) \ {e} : KeyLess(q[e], q[f])

----------------------------------------------------------------------------
(* One iteration of min_degree's loop, piece by piece *)

\* var = sorted(g_allowed[eq])[-1]
match_var_last(ga, eq) == CHOOSE x \in ga[eq] : \A y \in ga[eq] : y <= x

\* var = sorted(g_allowed[eq])[0]
match_var(ga, eq) == sorted(ga[eq])[1]

\* vrs = sorted(g[eq])[:1]
vrs_first_only(gf, eq) == IF gf[eq] = {} THEN << >> ELSE << Min(gf[eq]) >>

\* vrs = sorted(g[eq])
vrs_of(gf, eq) == sorted(gf[eq])

\* eqs_update = set(g[vrs[0]]) only
eqs_update_first_var(gf, eq, vs) ==
    IF vs = << >> THEN {} ELSE gf[vs[1]] \ {eq}

\* eqs_update = set(chain.from_iterable(g[v] for v in vrs)); discard(eq)
eqs_update_of(gf, eq, vs) == (UNION { gf[v] : v \in Range(vs) }) \ {eq}

\* matches[eq] = var only
record_match_one_way(mt, eq, var) == (eq :> var) @@ mt

\* matches[eq] = var; matches[var] = eq
record_match(mt, eq, var) == (eq :> var) @@ (var :> eq) @@ mt

\* remove_node(eq) only
eliminate_eq_only(gr, eq, vs) == remove_node(gr, eq)

\* remove_node(eq); remove_nodes_from(vrs)
eliminate(gr, eq, vs) == remove_nodes_from(remove_node(gr, eq), Range(vs))

\* sink_set = { n for n in rowp if n not in matches }
sink_set_of(rp, mt) == { n \in Range(rp) : n \notin DOMAIN mt }

\* tear_set = { n for n in colp if n not in matches }
tear_set_of(cp, mt) == { n \in Range(cp) : n \notin DOMAIN mt }


----------------------------------------------------------------------------
(* networkx.max_weight_matching(g), maxcardinality left False: a matching  *)
(* of maximum total weight; which one among several is not specified.      *)

RECURSIVE TotalWeight(_, _)
TotalWeight(M, w) == IF M = {} THEN 0
                     ELSE LET a == CHOOSE x \in M : TRUE
                          IN  w[a] + TotalWeight(M \ {a}, w)

\* the matchings of the rows rs that use no variable of used
RECURSIVE MatchingsFrom(_, _, _)
MatchingsFrom(gr, rs, used) ==
    IF rs = {} THEN { {} }
    ELSE LET r    == CHOOSE x \in rs : TRUE
             rest == rs \ {r}
         IN  MatchingsFrom(gr, rest, used)
             \cup UNION { { M \cup { << r, v >> } :
                               M \in MatchingsFrom(gr, rest, used \cup {v}) }
                          : v \in gr[r] \ used }

\* the sets of edges (eq, var) of gr without a common end point
Matchings(gr, rows) == MatchingsFrom(gr, rows \cap DOMAIN gr, {})

max_weight_matching(gr, rows, w) ==
    LET Ms   == Matchings(gr, rows)
        ws   == { TotalWeight(M, w) : M \in Ms }
        best == CHOOSE x \in ws : \A y \in ws : y <= x
    IN  { M \in Ms : TotalWeight(M, w) = best }

----------------------------------------------------------------------------
(* order_util collaborators *)

RECURSIVE Concat(_)
Concat(ss) == IF ss = << >> THEN << >> ELSE Head(ss) \o Concat(Tail(ss))

\* position of node n in the sequence s (0 when absent)
Pos(s, n) == IF n \in Range(s) THEN CHOOSE i \in 1..Len(s) : s[i] = n ELSE 0

RECURSIVE hessenberg_cols(_, _, _)
hessenberg_cols(gr, rp, seen) ==
    IF rp = << >> THEN << >>
    ELSE LET new == gr[Head(rp)] \ seen
         IN  sorted(new) \o hessenberg_cols(gr, Tail(rp), seen \cup new)

\* the column order: the columns in the order the rows of rowp first touch
\* them, then the columns no row touches
get_hessenberg_order(gr, es, rp) ==
    LET touched == hessenberg_cols(gr, rp, {})
    IN  touched \o sorted(((DOMAIN gr) \ es) \ Range(touched))

\* position of the rightmost nonzero of row eq under the column order cp
Envelope(gr, cp, eq) ==
    IF gr[eq] = {} THEN 0
    ELSE CHOOSE k \in 1..Len(cp) :
            /\ cp[k] \in gr[eq]
            /\ \A j \in (k+1)..Len(cp) : cp[j] \notin gr[eq]

envelope_ok(gr, rp, cp) ==
    \A i \in 1..(Len(rp) - 1) :
        Envelope(gr, cp, rp[i]) <= Envelope(gr, cp, rp[i + 1])

\* colp_to_spiked_form: the matched column of each row on the diagonal, the
\* k-th tear in the row of the k-th sink
colp_to_spiked_form(rp, cp, mt, tears, sinks) ==
    LET tl == Filter(cp, tears)
        sl == Filter(rp, sinks)
    IN  [i \in 1..Len(rp) |->
            IF rp[i] \in DOMAIN mt THEN mt[rp[i]]
            ELSE IF Pos(sl, rp[i]) <= Len(tl) THEN tl[Pos(sl, rp[i])] ELSE -1]

----------------------------------------------------------------------------
(* matching_to_dag *)

\* networkx.is_directed_acyclic_graph: strip the nodes without predecessor
RECURSIVE is_directed_acyclic_graph(_, _)
is_directed_acyclic_graph(ns, es) ==
    IF ns = {} THEN TRUE
    ELSE LET src == { n \in ns : ~ \E e \in es : e[2] = n /\ e[1] \in ns }
         IN  IF src = {} THEN FALSE
             ELSE is_directed_acyclic_graph(ns \ src, es)

\* set(edge for edge in iteritems(matches) if edge[0] in eqs)
matched_edges_of(mt, es) == { << k, mt[k] >> : k \in (DOMAIN mt) \cap es }

\* g_orig.edges_iter(rowp): the (eq, var) tuples of the edges at the rows
edges_iter(gr, rp) == { e \in Range(rp) \X (DOMAIN gr) : e[2] \in gr[e[1]] }

\* u, v = eq_var if eq_var in matched_edges else (eq_var[1], eq_var[0])
dag_edges(gr, rp, me) ==
    { IF e \in me THEN e ELSE << e[2], e[1] >> : e \in edges_iter(gr, rp) }

\* dag.add_nodes_from(rowp), then the end points of every edge added
dag_nodes(gr, rp, de) ==
    Range(rp) \cup { e[1] : e \in de } \cup { e[2] : e \in de }

succ(d, n) == { e[2] : e \in { x \in d.edges : x[1] = n } }
pred(d, n) == { e[1] : e \in { x \in d.edges : x[2] = n } }

----------------------------------------------------------------------------
(* The inputs *)

Rows(nr) == 0..(nr - 1)
Cols(nr, nc) == nr..(nr + nc - 1)

\* the adjacency map of the bipartite graph with the edge set es
Graph(nr, nc, es) ==
    [n \in Rows(nr) \cup Cols(nr, nc) |->
        IF n \in Rows(nr) THEN { e[2] : e \in { x \in es : x[1] = n } }
        ELSE { e[1] : e \in { x \in es : x[2] = n } }]

\* the subsets of S with at most k elements
RECURSIVE AtMost(_, _)
AtMost(S, k) == IF k = 0 THEN { {} }
                ELSE LET P == AtMost(S, k - 1)
                     IN  P \cup { p \cup {x} : p \in P, x \in S }

\* a forbidden set names each of the edges of fs once, as (eq, var) or as
\* (var, eq): the edges of flip are given as (var, eq)
Oriented(fs, flip) ==
    { IF e \in flip THEN << e[2], e[1] >> ELSE e : e \in fs }

Start(nr, nc, es, w, q, forb) ==
    /\ g_orig = Graph(nr, nc, es)
    /\ weight = w
    /\ n_rows = nr
    /\ eqs = q
    /\ forbidden = forb
    /\ pc = "call"
    /\ caller = ""
    /\ err = ""
    /\ probe = {}
    /\ g_allowed = EmptyMap
    /\ g = EmptyMap
    /\ eq_tot = EmptyMap
    /\ rowp = << >>
    /\ matches = EmptyMap
    /\ vrs_log = << >>
    /\ colp = << >>
    /\ tear_set = {}
    /\ sink_set = {}
    /\ result = << >>
    /\ dag = [nodes |-> {}, edges |-> {}]

\* eqs is the equation side of the graph; no edge carries a weight (1 each)
Init ==
    \E nr \in 0..MaxNodes : \E nc \in 0..(MaxNodes - nr) :
      \E es \in SUBSET (Rows(nr) \X Cols(nr, nc)) :
        \E fs \in AtMost(es, MaxForbidden) : \E flip \in SUBSET fs :
          Start(nr, nc, es, [e \in es |-> 1], Rows(nr), Oriented(fs, flip))

\* eqs is any part of the equation side; the forbidden pairs are (eq, var)
InitSub ==
    \E nr \in 0..MaxNodes : \E nc \in 0..(MaxNodes - nr) :
      \E es \in SUBSET (Rows(nr) \X Cols(nr, nc)) :
        \E fs \in AtMost(es, MaxForbidden) :
          \E q \in SUBSET Rows(nr) :
            Start(nr, nc, es, [e \in es |-> 1], q, fs)

\* every edge carries the weight 1 or the weight MaxWeight; forbidden is left
\* at its default
InitWeighted ==
    \E nr \in 0..MaxNodes : \E nc \in 0..(MaxNodes - nr) :
      \E es \in SUBSET (Rows(nr) \X Cols(nr, nc)) :
        \E w \in [es -> {1, MaxWeight}] :
          Start(nr, nc, es, w, Rows(nr), {})

----------------------------------------------------------------------------
(* The operations *)

Fail(msg) == pc' = "fail" /\ err' = msg

EmptyResult == [singular |-> TRUE, rowp |-> << >>, colp |-> << >>,
                tears |-> << >>, sinks |-> << >>]

\* min_degree up to its loop
EnterMinDegree ==
    IF eqs = {}
    THEN /\ Fail("assert eqs")
         /\ UNCHANGED << g_allowed, g, eq_tot >>
    ELSE /\ g_allowed' = setup_graphs(g_orig, forbidden)
         /\ g' = g_orig
         /\ eq_tot' = create_heap(g_allowed', g', eqs)
         /\ pc' = "loop"
         /\ UNCHANGED err

\* to_spiked_form, into min_degree up to its loop
ToSpikedForm ==
    /\ pc = "call"
    /\ caller' = "to_spiked_form"
    /\ IF 2 * Cardinality(eqs) # Cardinality(DOMAIN g_orig)
       THEN /\ Fail("Not a square matrix!")
            /\ UNCHANGED << probe, result, g_allowed, g, eq_tot >>
       ELSE \E M \in max_weight_matching(g_orig, eqs, weight) :
              /\ probe' = M
              /\ IF 2 * Cardinality(M) # 2 * Cardinality(eqs)
                 THEN /\ pc' = "singular"
                      /\ result' = EmptyResult
                      /\ UNCHANGED << err, g_allowed, g, eq_tot >>
                 ELSE /\ EnterMinDegree
                      /\ UNCHANGED result
    /\ UNCHANGED << g_orig, weight, n_rows, eqs, forbidden, rowp, matches,
                    vrs_log, colp, tear_set, sink_set, dag >>

\* to_hessenberg_form, into min_degree up to its loop
ToHessenbergForm ==
    /\ pc = "call"
    /\ caller' = "to_hessenberg_form"
    /\ EnterMinDegree
    /\ UNCHANGED << g_orig, weight, n_rows, eqs, forbidden, probe, rowp,
                    matches, vrs_log, colp, tear_set, sink_set, result, dag >>

\* one iteration of `while eq_tot`
MinDegreeStep ==
    /\ pc = "loop"
    /\ DOMAIN eq_tot # {}
    /\ LET eq   == popitem(eq_tot)
           has  == g_allowed[eq] # {}
           var  == match_var(g_allowed, eq)
           vrs  == vrs_of(g, eq)
           upd  == eqs_update_of(g, eq, vrs)
           ga2  == eliminate(g_allowed, eq, vrs)
           g2   == eliminate(g, eq, vrs)
       IN  /\ rowp' = Append(rowp, eq)
           /\ IF has /\ eq \in DOMAIN matches
              THEN /\ Fail("assert eq not in matches")
                   /\ UNCHANGED << g_allowed, g, eq_tot, matches, vrs_log >>
              ELSE IF has /\ var \in DOMAIN matches
              THEN /\ Fail("assert var not in matches")
                   /\ UNCHANGED << g_allowed, g, eq_tot, matches, vrs_log >>
              ELSE /\ matches' = IF has
                                 THEN record_match(matches, eq, var)
                                 ELSE matches
                   /\ vrs_log' = Append(vrs_log, vrs)
                   /\ g_allowed' = ga2
                   /\ g' = g2
                   /\ eq_tot' = [e \in ((DOMAIN eq_tot) \ {eq}) \cup upd |->
                                    IF e \in upd THEN Key(ga2, g2, e)
                                    ELSE eq_tot[e]]
                   /\ UNCHANGED << pc, err >>
    /\ UNCHANGED << g_orig, weight, n_rows, eqs, forbidden, caller, probe,
                    colp, tear_set, sink_set, result, dag >>

\* the rest of to_spiked_form (lines 70-77); check_spiked_form only asserts
\* on its arguments and changes no state, so it contributes nothing here
spiked_result(rp, cp, mt, tears, sinks) ==
    LET cs == colp_to_spiked_form(rp, cp, mt, tears, sinks)
    IN  [singular |-> FALSE, rowp |-> rp, colp |-> cs,
         tears |-> Filter(cs, tears), sinks |-> Filter(rp, sinks)]

\* the rest of to_hessenberg_form
hessenberg_result(rp, cp, mt, tears, sinks) ==
    [rowp |-> rp, colp |-> cp,
     tears |-> Filter(cp, tears), sinks |-> Filter(rp, sinks),
     row_matches |-> Filter(rp, DOMAIN mt),
     col_matches |-> Filter(cp, DOMAIN mt)]

\* min_degree after its loop, and the rest of its caller
MinDegreeFinish ==
    /\ pc = "loop"
    /\ DOMAIN eq_tot = {}
    /\ LET cp    == get_hessenberg_order(g_orig, eqs, rowp)
           sinks == sink_set_of(rowp, matches)
           tears == tear_set_of(cp, matches)
       IN  IF Len(rowp) # Cardinality(eqs)
           THEN /\ Fail("assert len(rowp) == len(eqs)")
                /\ UNCHANGED << colp, tear_set, sink_set, result >>
           ELSE IF ~ envelope_ok(g_orig, rowp, cp)
           THEN /\ Fail("get_hessenberg_order: envelope")
                /\ UNCHANGED << colp, tear_set, sink_set, result >>
           ELSE /\ colp' = cp
                /\ sink_set' = sinks
                /\ tear_set' = tears
                /\ result' = IF caller = "to_spiked_form"
                             THEN spiked_result(rowp, cp, matches, tears, sinks)
                             ELSE hessenberg_result(rowp, cp, matches, tears, sinks)
                /\ pc' = "returned"
                /\ UNCHANGED err
    /\ UNCHANGED << g_orig, weight, n_rows, eqs, forbidden, caller, probe,
                    g_allowed, g, eq_tot, rowp, matches, vrs_log, dag >>

\* matching_to_dag on the result of min_degree
MatchingToDag ==
    /\ pc = "returned"
    /\ LET me == matched_edges_of(matches, eqs)
           de == dag_edges(g_orig, rowp, me)
           d  == [nodes |-> dag_nodes(g_orig, rowp, de), edges |-> de]
       IN  /\ dag' = d
           /\ pc' = "done"
           /\ err' =
                IF me \cap forbidden # {}
                  THEN "assert not (matched_edges & forbidden)"
                ELSE IF me \ edges_iter(g_orig, rowp) # {}
                  THEN "assert not matched_edges"
                ELSE IF d.nodes # DOMAIN g_orig
                  THEN "assert has_all_nodes"
                ELSE IF ~ is_directed_acyclic_graph(d.nodes, d.edges)
                  THEN "assert is_directed_acyclic_graph(dag)"
                ELSE IF Cardinality(me) # Cardinality(eqs) - Cardinality(sink_set)
                  THEN "assert len_matches == len(eqs) - len(sinks)"
                ELSE IF Cardinality(me) # Cardinality(DOMAIN g_orig)
                                          - Cardinality(eqs) - Cardinality(tear_set)
                  THEN "assert len_matches == len(g_orig) - len(eqs) - len(tears)"
                ELSE IF \E eq \in Range(rowp) : Cardinality(succ(d, eq)) > 1
                  THEN "assert not more_than_one_outedge"
                ELSE IF \E v \in Range(colp) : Cardinality(pred(d, v)) > 1
                  THEN "assert not more_than_one_inedge"
                ELSE ""
    /\ UNCHANGED << g_orig, weight, n_rows, eqs, forbidden, caller, probe,
                    g_allowed, g, eq_tot, rowp, matches, vrs_log, colp,
                    tear_set, sink_set, result >>

Next ==
    \/ ToSpikedForm
    \/ ToHessenbergForm
    \/ MinDegreeStep
    \/ MinDegreeFinish
    \/ MatchingToDag

Spec == Init /\ [][Next]_vars

SpecSub == InitSub /\ [][Next]_vars

SpecWeighted == InitWeighted /\ [][Next]_vars

----------------------------------------------------------------------------
(* Properties *)

Returned == { "returned", "done" }

Injective(sq) == \A i \in 1..Len(sq) : \A j \in 1..Len(sq) : sq[i] = sq[j] => i = j

\* every equation that shares a variable with an equation of eqs is in eqs
EqsClosed == \A e \in eqs : \A v \in g_orig[e] : g_orig[v] \subseteq eqs

MatchedEqs == (DOMAIN matches) \cap eqs
MatchedVars == (DOMAIN matches) \ eqs

C2_ValidMatching ==
    /\ err \notin { "assert eq not in matches", "assert var not in matches",
                    "assert not more_than_one_outedge",
                    "assert not more_than_one_inedge" }
    /\ \A k \in DOMAIN matches :
          /\ matches[k] \in DOMAIN matches
          /\ matches[matches[k]] = k
          /\ (k \in eqs) # (matches[k] \in eqs)
          /\ matches[k] \in g_orig[k]
    /\ \A a \in DOMAIN matches : \A b \in DOMAIN matches :
          matches[a] = matches[b] => a = b
    /\ \A n \in DOMAIN g_orig :
          IF n \in eqs THEN Cardinality(succ(dag, n)) <= 1
                       ELSE Cardinality(pred(dag, n)) <= 1

C2_Witness ==
    /\ pc = "done"
    /\ Cardinality(MatchedEqs) >= 2
    /\ \E v \in MatchedVars : Cardinality(succ(dag, v)) >= 1

\* C3: no forbidden pair, whichever way round it was given, is matched in
\* either direction; the forbidden edges still count in the tot of a key and
\* their variable is eliminated no later than their equation.
C3_NoForbiddenMatch ==
    /\ err # "assert not (matched_edges & forbidden)"
    /\ \A p \in forbidden :
          /\ ~ (p[1] \in DOMAIN matches /\ matches[p[1]] = p[2])
          /\ ~ (p[2] \in DOMAIN matches /\ matches[p[2]] = p[1])
    /\ pc = "loop" =>
          \A e \in DOMAIN eq_tot :
             eq_tot[e][2] = Cardinality(g_orig[e] \cap DOMAIN g)
    /\ \A i \in 1..Len(vrs_log) : \A p \in forbidden :
          (rowp[i] \in { p[1], p[2] }) =>
             \E j \in 1..i : { p[1], p[2] } \cap Range(vrs_log[j]) # {}

C3_Witness ==
    /\ pc = "done"
    /\ \E p \in forbidden :
          /\ p[2] \in eqs
          /\ p[2] \in DOMAIN matches
          /\ p[1] < matches[p[2]]

\* C4: the DiGraph of matching_to_dag has each incidence edge once, from the
\* equation to the variable when the pair is matched and from the variable
\* to the equation otherwise, and it has no cycle: no non-empty set of nodes
\* has a predecessor inside the set for each of its nodes.
C4_Acyclic ==
    /\ err # "assert is_directed_acyclic_graph(dag)"
    /\ pc = "done" =>
          /\ dag.edges = { IF e[1] \in DOMAIN matches /\ matches[e[1]] = e[2]
                           THEN e ELSE << e[2], e[1] >> : e \in Edges(g_orig, eqs) }
          /\ \A S \in (SUBSET dag.nodes) \ { {} } :
                \E n \in S : \A e \in dag.edges : e[2] = n => e[1] \notin S

C4_Witness ==
    /\ pc = "done"
    /\ Cardinality(MatchedEqs) >= 2
    /\ Cardinality(dag.edges) >= 4

\* C5: in the result of min_degree the sinks and the matched equations
\* partition eqs, the tears and the matched variables partition the
\* variables, and the number of matched pairs is |eqs| - |sinks| and also
\* |nodes| - |eqs| - |tears|; neither count assertion fails.
C5_Partition ==
    /\ err \notin { "assert len_matches == len(eqs) - len(sinks)",
                    "assert len_matches == len(g_orig) - len(eqs) - len(tears)" }
    /\ pc \in Returned =>
          /\ sink_set \cap MatchedEqs = {}
          /\ sink_set \cup MatchedEqs = eqs
          /\ tear_set \cap MatchedVars = {}
          /\ tear_set \cup MatchedVars = (DOMAIN g_orig) \ eqs
          /\ Cardinality(MatchedVars) = Cardinality(MatchedEqs)
          /\ Cardinality(MatchedEqs) = Cardinality(eqs) - Cardinality(sink_set)
          /\ Cardinality(MatchedEqs) = Cardinality(DOMAIN g_orig)
                                       - Cardinality(eqs) - Cardinality(tear_set)

C5_Witness ==
    /\ pc = "done"
    /\ err = ""
    /\ sink_set # {}
    /\ tear_set # {}
    /\ MatchedEqs # {}

\* some matching of the graph, with all its edges, saturates every equation
Saturable ==
    \E M \in Matchings(g_orig, eqs) : Cardinality(M) = Cardinality(eqs)

Square == 2 * Cardinality(eqs) = Cardinality(DOMAIN g_orig)

\* C6: to_spiked_form fails 'Not a square matrix!' before the probe on a
\* non-square input; on a square input it returns singular = True with empty
\* lists, without running the elimination, exactly when no matching saturates
\* every equation, and otherwise singular = False with a row order that is a
\* permutation of eqs.
C6_SingularIffNoSaturatingMatching ==
    (caller = "to_spiked_form") =>
       /\ ~ Square => pc = "fail" /\ err = "Not a square matrix!" /\ probe = {}
       /\ Square /\ ~ Saturable =>
             pc = "singular" /\ result = EmptyResult /\ rowp = << >>
       /\ Square /\ Saturable => pc # "singular"
       /\ pc \in Returned =>
             /\ result.singular = FALSE
             /\ Range(result.rowp) = eqs
             /\ Len(result.rowp) = Cardinality(eqs)

\* the probe is exact on a graph whose edges all weigh the same
UniformWeightsProbeExact ==
    (\A a \in DOMAIN weight : \A b \in DOMAIN weight : weight[a] = weight[b])
       => C6_SingularIffNoSaturatingMatching

\* position of the rightmost column of row eq under the column order cols
\* (0 for an empty row)
Rightmost(cols, eq) ==
    LET ps == { k \in 1..Len(cols) : cols[k] \in g_orig[eq] }
    IN  IF ps = {} THEN 0 ELSE CHOOSE x \in ps : \A y \in ps : y <= x

\* C7: each iteration eliminates exactly the variables of its equation that
\* no earlier equation of the row order touches, so with the columns in the
\* order of their elimination a row has no nonzero in a column eliminated
\* after its own step, and the rightmost nonzero column of the rows does not
\* move left going down the row order.
C7_HessenbergEnvelope ==
    /\ err # "get_hessenberg_order: envelope"
    /\ pc \in { "loop", "returned" } =>
         LET cols == Concat(vrs_log)
             rm   == [i \in 1..Len(vrs_log) |-> Rightmost(cols, rowp[i])]
         IN  /\ \A i \in 1..Len(vrs_log) :
                   /\ Range(vrs_log[i]) =
                         { v \in g_orig[rowp[i]] :
                              \A j \in 1..(i-1) : v \notin g_orig[rowp[j]] }
                   /\ rm[i] <= Len(Concat(SubSeq(vrs_log, 1, i)))
                   /\ i > 1 => rm[i-1] <= rm[i]
             /\ pc = "returned" => SubSeq(colp, 1, Len(cols)) = cols

C7_Witness ==
    /\ pc = "returned"
    /\ Len(rowp) >= 3
    /\ \E i \in 2..Len(rowp) :
          /\ vrs_log[i] = << >>
          /\ g_orig[rowp[i]] # {}
    /\ \E i \in 2..Len(rowp) :
          /\ vrs_log[i] # << >>
          /\ g_orig[rowp[i]] # Range(vrs_log[i])

\* C8: the node set of the DiGraph of matching_to_dag is the node set of
\* g_orig, nodes of degree zero included; has_all_nodes does not fail.
C8_DagHasAllNodes ==
    /\ err # "assert has_all_nodes"
    /\ pc = "done" => dag.nodes = DOMAIN g_orig

\* the key of equation e recomputed from the working graphs
FreshKey(e) ==
    LET tot == Cardinality(g[e])
    IN  << IF g_allowed[e] # {} THEN tot - 1 ELSE tot, tot, e >>

C9_KeysFresh ==
    pc = "loop" =>
       /\ DOMAIN eq_tot = eqs \ Range(rowp)
       /\ \A e \in DOMAIN eq_tot : eq_tot[e] = FreshKey(e)

C9_PopsFreshMinimum ==
    (pc = "loop" /\ Len(rowp') = Len(rowp) + 1) =>
       LET e == rowp'[Len(rowp')]
       IN  /\ e \in eqs \ Range(rowp)
           /\ \A f \in (eqs \ Range(rowp)) \ {e} : KeyLess(FreshKey(e), FreshKey(f))

\* C9: at the start of every iteration each queued equation carries the key
\* recomputed from the current working graphs, the queue holds exactly the
\* equations not yet in the row order, and the equation popped is the one a
\* from-scratch recomputation of all keys would choose.
C9_NoStaleKeys == [] C9_KeysFresh /\ [][C9_PopsFreshMinimum]_vars

C9_Witness ==
    /\ pc = "loop"
    /\ \E e \in DOMAIN eq_tot :
          /\ eq_tot[e] # Key(setup_graphs(g_orig, forbidden), g_orig, e)
          /\ eq_tot[e][1] = eq_tot[e][2]
          /\ eq_tot[e][2] > 0

AllEdgesForbidden(e) ==
    /\ g_orig[e] # {}
    /\ \A v \in g_orig[e] : << e, v >> \in forbidden \/ << v, e >> \in forbidden

C10_MatchAtPop ==
    (pc = "loop" /\ Len(rowp') = Len(rowp) + 1) =>
       LET e == rowp'[Len(rowp')]
       IN  IF g_allowed[e] # {}
           THEN /\ e \in DOMAIN matches'
                /\ matches'[e] \in g_allowed[e]
                /\ \A v \in g_allowed[e] : matches'[e] <= v
                /\ matches'[e] \in DOMAIN g
                /\ << e, matches'[e] >> \notin forbidden
                /\ << matches'[e], e >> \notin forbidden
           ELSE e \notin DOMAIN matches'

C10_MatchIsFinal ==
    \A k \in Range(rowp) \cup DOMAIN matches :
       /\ (k \in DOMAIN matches) = (k \in DOMAIN matches')
       /\ k \in DOMAIN matches => matches'[k] = matches[k]

C10_SinksAndTears ==
    pc \in Returned =>
       \A e \in eqs :
          /\ (e \in sink_set) = (e \notin DOMAIN matches)
          /\ AllEdgesForbidden(e) =>
                /\ e \in sink_set
                /\ \A v \in g_orig[e] :
                      \/ v \in tear_set
                      \/ v \in DOMAIN matches /\ matches[v] # e

\* C10: a popped equation is matched exactly when it has a neighbour in the
\* current allowed graph, to the smallest such variable; the decision is
\* never revised, an unmatched equation ends in sink_set, and an equation
\* with all edges forbidden is a sink whose variables are tears unless
\* matched to another equation.
C10_SmallestAllowedNeighbour ==
    /\ [][C10_MatchAtPop]_vars
    /\ [][C10_MatchIsFinal]_vars
    /\ [] C10_SinksAndTears

\* the allowed neighbours of the i-th row of the row order when it was popped
AllowedAtPop(i) ==
    setup_graphs(g_orig, forbidden)[rowp[i]]
       \ UNION { Range(vrs_log[j]) : j \in 1..(i-1) }

C10_Witness ==
    /\ pc = "returned"
    /\ \E e \in eqs : AllEdgesForbidden(e) /\ e \in sink_set
    /\ \E i \in 1..Len(rowp) :
          /\ Cardinality(AllowedAtPop(i)) >= 2
          /\ matches[rowp[i]] = Min(AllowedAtPop(i))

====
